---- MODULE Spec2Model ----
(***************************************************************************)
(* Model of the execution core of xeus-cling (src/src/xinterpreter.cpp):   *)
(* construction and teardown of xcpp::interpreter (output redirection,     *)
(* preamble registration), execute_request_impl (preamble dispatch, block  *)
(* splitting, the compile-execute-recover loop, publication of the         *)
(* trailing value, final flush) and the stream buffers the redirection     *)
(* installs.  The cling engine, the preamble handlers and user code are    *)
(* inputs: their answers are drawn from small sets.                        *)
(***************************************************************************)
EXTENDS Integers, Sequences, FiniteSets, TLC

(* ---------------------------- bounds ----------------------------------- *)
\* longest submission, in characters
MaxCodeLen == 3
\* number of execute requests the session layer sends
MaxExec == 2
\* number of writes user code makes to the standard streams
MaxWrites == 1

(* ---------------------------- vocabulary ------------------------------- *)
\* characters of a submission: "#" opens an inclusion directive that runs
\* to the end of its line, "nl" is the line break (the only white space),
\* ";" the statement terminator, "x" any other character
Alphabet == {"#", "x", ";", "nl"}

Whitespace == {"nl"}

CompilationResult == {"kSuccess", "kFailure", "kMoreInputExpected"}

\* error levels MetaProcessor::process can return (0 is "no error")
ErrorLevels == {-1, 0, 1}

\* a cling::Value that holds nothing
NoValue == "novalue"

Values == {"v1", "v2"}

\* stream targets std::cout can have before the interpreter exists
CoutTargets == {"tty_out", "file_out"}

\* stream target of std::cerr before the interpreter exists
CerrTarget == "tty_err"

PreambleNames == {"introspection", "magics", "shell"}

\* replies the apply of the preamble called name can leave in kernel_res
PreambleReplies(name) == {[status |-> "ok", handled_by |-> name], [status |-> "error", handled_by |-> name]}

\* what a preamble's apply can do: leave a reply with one of two statuses in
\* kernel_res, or throw
ApplyOutcomes == {"ok", "error", "exception"}

RECURSIVE SeqsUpTo(_, _)
SeqsUpTo(S, n) ==
    IF n = 0 THEN {<<>>}
    ELSE LET shorter == SeqsUpTo(S, n - 1)
         IN shorter \cup {Append(s, c) : s \in {t \in shorter : Len(t) = n - 1}, c \in S}

Codes == SeqsUpTo(Alphabet, MaxCodeLen)

Last(s) == s[Len(s)]

(* ---------------------------- state ------------------------------------ *)
VARIABLES
    phase,              \* "unborn", "live" (constructed), "dead" (destroyed)
    cout_rdbuf,         \* std::cout.rdbuf()
    cerr_rdbuf,         \* std::cerr.rdbuf()
    p_cout_strbuf,      \* interpreter::p_cout_strbuf
    p_cerr_strbuf,      \* interpreter::p_cerr_strbuf
    pre_cout,           \* history: std::cout.rdbuf() just before redirect_output
    pre_cerr,           \* history: std::cerr.rdbuf() just before redirect_output
    nInstall,           \* history: number of redirect_output calls
    nRestore,           \* history: number of restore_output calls
    m_cout_buffer,      \* text held by interpreter::m_cout_buffer
    m_cerr_buffer,      \* text held by interpreter::m_cerr_buffer
    sink,               \* text that reached a stream target other than the two buffers
    stream_log,         \* publish_stream messages since construction / the last execute began
    nWrites,            \* writes made by user code so far
    preamble,           \* preamble_manager.preamble, in iteration order
    magic,              \* sub-commands registered on the magics handler
    lookups,            \* history: outcome of every preamble_manager[name] lookup
    pc,                 \* position inside execute_request_impl
    nExec,              \* execute requests started so far
    execution_counter,  \* argument of the current execute request
    code,               \* argument of the current execute request
    matches,            \* the preambles whose is_match(code) is true
    compilation_result, \* local compilation_result ("uninit" until written)
    output,             \* local cling::Value output
    kernel_res,         \* local kernel_res
    blocks,             \* local blocks
    idx,                \* position of the block loop in blocks
    tested,             \* history: preambles whose is_match was evaluated, in order
    applied,            \* history: <<name, reply>> of every apply call
    splits,             \* history: number of split_from_includes calls
    invoked,            \* history: block index of every m_processor.process call
    outcomes,           \* history: what each m_processor.process call did
    cancelled,          \* history: number of cancelContinuation calls
    results,            \* history: publish_execution_result messages
    flushes,            \* history: number of std::flush on std::cout by execute
    events,             \* history: what the current call did, in order
    reply               \* <<>> while running, <<r>> once execute returned r

redirVars == <<phase, cout_rdbuf, cerr_rdbuf, p_cout_strbuf, p_cerr_strbuf, pre_cout, pre_cerr,
               nInstall, nRestore>>
bufVars == <<m_cout_buffer, m_cerr_buffer, sink, stream_log>>
regVars == <<preamble, magic, lookups>>
callVars == <<pc, nExec, execution_counter, code, matches, compilation_result, output,
              kernel_res, blocks, idx, reply>>
histVars == <<tested, applied, splits, invoked, outcomes, cancelled, results, flushes, events>>
vars == <<redirVars, bufVars, nWrites, regVars, callVars, histVars>>


(* ---------------------------- text helpers ----------------------------- *)
RECURSIVE ltrim(_)
ltrim(s) == IF s # <<>> /\ Head(s) \in Whitespace THEN ltrim(Tail(s)) ELSE s

RECURSIVE rtrim(_)
rtrim(s) == IF s # <<>> /\ Last(s) \in Whitespace THEN rtrim(SubSeq(s, 1, Len(s) - 1)) ELSE s

\* trim: the string without its leading and trailing white space
trim(s) == rtrim(ltrim(s))

\* One scan of the submission.  A "#" outside a directive closes the run of
\* ordinary text before it and opens a directive; the directive runs to the
\* end of its line.  Every piece is trimmed and empty pieces are dropped.
RECURSIVE split_scan(_, _, _, _, _)
split_scan(s, i, cur, inDirective, acc) ==
    LET closed == IF trim(cur) = <<>> THEN acc ELSE Append(acc, trim(cur))
    IN  IF i > Len(s) THEN closed
        ELSE IF inDirective
             THEN IF s[i] = "nl"
                  THEN split_scan(s, i + 1, <<>>, FALSE, closed)
                  ELSE split_scan(s, i + 1, Append(cur, s[i]), TRUE, acc)
             ELSE IF s[i] = "#"
                  THEN split_scan(s, i + 1, <<"#">>, TRUE, closed)
                  ELSE split_scan(s, i + 1, Append(cur, s[i]), FALSE, acc)

\* split_from_includes: the fragments of a submission; a submission without
\* a directive is one fragment, the trimmed submission
split_from_includes(s) ==
    IF \A i \in 1..Len(s) : s[i] # "#" THEN <<trim(s)>>
    ELSE split_scan(s, 1, <<>>, FALSE, <<>>)

\* output.print(stream, true): the text of a value
print(v) == <<"text", v>>

(* ---------------------------- replies ---------------------------------- *)
\* seeded fault: error name and error value change places
get_error_reply_swapped(ename, evalue, trace_back) ==
    [status |-> "error", ename |-> evalue, evalue |-> ename, traceback |-> trace_back]

get_error_reply(ename, evalue, trace_back) ==
    [status |-> "error", ename |-> ename, evalue |-> evalue, traceback |-> trace_back]

\* kernel_res["status"] = "ok" on the object execute has built so far
set_status_ok(res) == [k \in DOMAIN res \cup {"status"} |-> IF k = "status" THEN "ok" ELSE res[k]]

\* a default-constructed xeus::xjson
EmptyJson == [k \in {} |-> ""]

(* ---------------------------- stream buffers --------------------------- *)
\* the four pieces of state a stream operation can change, as one record
Streams == [out |-> m_cout_buffer, err |-> m_cerr_buffer, sink |-> sink, log |-> stream_log]

publish_stdout(s) == [name |-> "stdout", text |-> s]

publish_stderr(s) == [name |-> "stderr", text |-> s]

\* xsputn on the buffer a stream points to: the redirection buffers
\* accumulate, any other target receives the text
xsputn(st, target, chunk) ==
    IF target = "m_cout_buffer" THEN [st EXCEPT !.out = Append(@, chunk)]
    ELSE IF target = "m_cerr_buffer" THEN [st EXCEPT !.err = Append(@, chunk)]
    ELSE [st EXCEPT !.sink = Append(@, [target |-> target, chunk |-> chunk])]

\* sync on the buffer a stream points to: a non-empty redirection buffer
\* hands its text to its callback and empties
sync(st, target) ==
    IF target = "m_cout_buffer" /\ st.out # <<>>
    THEN [st EXCEPT !.log = Append(@, publish_stdout(st.out)), !.out = <<>>]
    ELSE IF target = "m_cerr_buffer" /\ st.err # <<>>
    THEN [st EXCEPT !.log = Append(@, publish_stderr(st.err)), !.err = <<>>]
    ELSE st

\* std::cerr << t1 << t2 ...: std::cerr is unit-buffered, every insertion
\* is followed by a flush
RECURSIVE cerr_insert(_, _, _)
cerr_insert(st, target, texts) ==
    IF texts = <<>> THEN st
    ELSE cerr_insert(sync(xsputn(st, target,
                                 [by |-> "sys", to |-> "stderr", at |-> "live", text |-> Head(texts)]),
                          target),
                     target, Tail(texts))

SetStreams(st) ==
    /\ m_cout_buffer' = st.out
    /\ m_cerr_buffer' = st.err
    /\ sink' = st.sink
    /\ stream_log' = st.log


(* ---------------------------- construction ----------------------------- *)
Init ==
    /\ phase = "unborn"
    /\ cout_rdbuf \in CoutTargets
    /\ cerr_rdbuf = CerrTarget
    /\ p_cout_strbuf = "nullptr"
    /\ p_cerr_strbuf = "nullptr"
    /\ pre_cout = "none"
    /\ pre_cerr = "none"
    /\ nInstall = 0
    /\ nRestore = 0
    /\ m_cout_buffer = <<>>
    /\ m_cerr_buffer = <<>>
    /\ sink = <<>>
    /\ stream_log = <<>>
    /\ nWrites = 0
    /\ preamble = <<>>
    /\ magic = {}
    /\ lookups = <<>>
    /\ pc = "idle"
    /\ nExec = 0
    /\ execution_counter = 0
    /\ code = <<>>
    /\ matches = {}
    /\ compilation_result = "uninit"
    /\ output = NoValue
    /\ kernel_res = EmptyJson
    /\ blocks = <<>>
    /\ idx = 1
    /\ tested = <<>>
    /\ applied = <<>>
    /\ splits = 0
    /\ invoked = <<>>
    /\ outcomes = <<>>
    /\ cancelled = 0
    /\ results = <<>>
    /\ flushes = 0
    /\ events = <<>>
    /\ reply = <<>>

redirect_output ==
    /\ p_cout_strbuf' = cout_rdbuf
    /\ p_cerr_strbuf' = cerr_rdbuf
    /\ cout_rdbuf' = "m_cout_buffer"
    /\ cerr_rdbuf' = "m_cerr_buffer"
    /\ nInstall' = nInstall + 1

\* seeded fault: the two saved targets are reinstated crosswise
restore_output_crossed ==
    /\ cout_rdbuf' = p_cerr_strbuf
    /\ cerr_rdbuf' = p_cout_strbuf
    /\ nRestore' = nRestore + 1
    /\ UNCHANGED <<p_cout_strbuf, p_cerr_strbuf>>

restore_output ==
    /\ cout_rdbuf' = p_cout_strbuf
    /\ cerr_rdbuf' = p_cerr_strbuf
    /\ nRestore' = nRestore + 1
    /\ UNCHANGED <<p_cout_strbuf, p_cerr_strbuf>>

\* preamble_manager.register_preamble(name, handler): a new name goes to the
\* end of the order, a known name keeps its place
register_preamble(order, name) ==
    IF \E i \in 1..Len(order) : order[i] = name THEN order ELSE Append(order, name)

init_preamble ==
    preamble' = register_preamble(register_preamble(register_preamble(preamble,
                    "introspection"), "magics"), "shell")

\* preamble_manager[name]: the handler registered under name, or the
\* not-found condition
get(order, name) ==
    IF \E i \in 1..Len(order) : order[i] = name THEN "found" ELSE "not_found"

\* seeded fault: init_magic runs before init_preamble has registered anything
init_magic_early ==
    /\ lookups' = lookups \o <<get(preamble, "magics"), get(preamble, "magics")>>
    /\ magic' = IF get(preamble, "magics") = "found"
                THEN magic \cup {"file", "timeit"} ELSE magic

\* lines 284-285, run after init_preamble: each line looks the magics
\* handler up and registers one sub-command on it
init_magic ==
    /\ lookups' = lookups \o <<get(preamble', "magics"), get(preamble', "magics")>>
    /\ magic' = IF get(preamble', "magics") = "found"
                THEN magic \cup {"file", "timeit"} ELSE magic

\* interpreter::interpreter
Construct ==
    /\ phase = "unborn"
    /\ pre_cout' = cout_rdbuf
    /\ pre_cerr' = cerr_rdbuf
    /\ redirect_output
    /\ init_preamble
    /\ init_magic
    \* a lookup that finds nothing ends the constructor: no interpreter
    /\ phase' = IF \E i \in DOMAIN lookups' : lookups'[i] = "not_found"
                THEN "failed" ELSE "live"
    /\ UNCHANGED <<nRestore, bufVars, nWrites, callVars, histVars>>

\* interpreter::~interpreter
Destroy ==
    /\ phase = "live"
    /\ pc \in {"idle", "threw"}
    /\ restore_output
    /\ phase' = "dead"
    /\ UNCHANGED <<pre_cout, pre_cerr, nInstall, bufVars, nWrites, regVars, callVars,
                   histVars>>

(* ---------------------------- user code -------------------------------- *)
\* the number of the execute_request_impl call that is running, 0 between
\* calls
CurrentCall == IF pc \in {"idle", "entry", "threw"} THEN 0 ELSE nExec

\* user code (a running fragment or a thread it spawned) writes to one of
\* the standard streams, followed by a flush or not
Write(streams, flushing) ==
    /\ nWrites < MaxWrites
    /\ nWrites' = nWrites + 1
    /\ \E to \in streams, flush \in flushing :
          LET target == IF to = "stdout" THEN cout_rdbuf ELSE cerr_rdbuf
              chunk  == [by |-> "user", to |-> to, at |-> phase, call |-> CurrentCall,
                         text |-> "u"]
              wrote  == xsputn(Streams, target, chunk)
          IN  SetStreams(IF flush THEN sync(wrote, target) ELSE wrote)
    /\ UNCHANGED <<redirVars, regVars, callVars, histVars>>

WriteStream == Write({"stdout", "stderr"}, BOOLEAN)


(* ---------------------------- execute_request_impl --------------------- *)
\* the session layer takes the next execute request off its queue: a new
\* observation window starts
ExecuteRequest ==
    /\ phase = "live"
    /\ pc = "idle"
    /\ nExec < MaxExec
    /\ nExec' = nExec + 1
    /\ execution_counter' = 0
    /\ code' = <<>>
    /\ matches' = {}
    /\ compilation_result' = "uninit"
    /\ kernel_res' = EmptyJson
    /\ output' = NoValue
    /\ blocks' = <<>>
    /\ idx' = 1
    /\ reply' = <<>>
    /\ tested' = <<>>
    /\ applied' = <<>>
    /\ splits' = 0
    /\ invoked' = <<>>
    /\ outcomes' = <<>>
    /\ cancelled' = 0
    /\ results' = <<>>
    /\ flushes' = 0
    /\ events' = <<>>
    /\ stream_log' = <<>>
    /\ pc' = "entry"
    /\ UNCHANGED <<redirVars, m_cout_buffer, m_cerr_buffer, sink, nWrites, regVars>>

\* entry of execute_request_impl: the arguments (the session layer numbers
\* its requests 1, 2, ...) and the locals of lines 84-85
ExecuteBegin ==
    /\ pc = "entry"
    /\ execution_counter' = nExec
    /\ code' \in Codes
    /\ matches' \in SUBSET PreambleNames
    /\ compilation_result' = "uninit"
    /\ kernel_res' = EmptyJson
    /\ pc' = "dispatch"
    /\ UNCHANGED <<redirVars, bufVars, nWrites, regVars, nExec, output, blocks, idx, reply,
                   histVars>>

\* seeded fault: the loop does not stop at the first match
RECURSIVE preamble_loop_all(_, _, _)
preamble_loop_all(order, m, i) ==
    IF i > Len(order) THEN [tested |-> <<>>, hit |-> <<>>]
    ELSE LET rest == preamble_loop_all(order, m, i + 1)
         IN  [tested |-> <<order[i]>> \o rest.tested,
              hit |-> IF order[i] \in m THEN <<order[i]>> \o rest.hit ELSE rest.hit]

\* the loop over preamble_manager.preamble: the handlers whose is_match is
\* evaluated, and the handlers applied
RECURSIVE preamble_loop(_, _, _)
preamble_loop(order, m, i) ==
    IF i > Len(order) THEN [tested |-> <<>>, hit |-> <<>>]
    ELSE IF order[i] \in m THEN [tested |-> <<order[i]>>, hit |-> <<order[i]>>]
    ELSE LET rest == preamble_loop(order, m, i + 1)
         IN  [tested |-> <<order[i]>> \o rest.tested, hit |-> rest.hit]

\* seeded fault: the loop is left with a break, execution goes on to the engine
after_apply_break == "break"

\* what follows pre.second.apply(code, kernel_res): "return kernel_res"
after_apply == "return"

\* lines 87-94
Dispatch ==
    /\ pc = "dispatch"
    /\ LET d == preamble_loop(preamble, matches, 1)
       IN  /\ tested' = d.tested
           /\ IF d.hit = <<>>
              THEN /\ pc' = "split"
                   /\ UNCHANGED <<applied, kernel_res, reply>>
              ELSE /\ \E f \in [1..Len(d.hit) -> [status : ApplyOutcomes]] :
                         applied' = [i \in 1..Len(d.hit) |->
                                       [name |-> d.hit[i],
                                        result |-> [status |-> f[i].status, handled_by |-> d.hit[i]]]]
                   /\ IF Last(applied').result.status = "exception"
                      \* no try block surrounds the loop: the exception leaves execute
                      THEN pc' = "threw" /\ UNCHANGED <<kernel_res, reply>>
                      ELSE /\ kernel_res' = Last(applied').result
                           /\ IF after_apply = "return"
                              THEN pc' = "idle" /\ reply' = <<kernel_res'>>
                              ELSE pc' = "split" /\ UNCHANGED reply
    /\ UNCHANGED <<redirVars, bufVars, nWrites, regVars, nExec, execution_counter, code,
                   matches, compilation_result, output, blocks, idx,
                   splits, invoked, outcomes, cancelled, results, flushes, events>>

\* seeded fault: the submission is handed to the engine as one block
Split_unsplit ==
    /\ pc = "split"
    /\ blocks' = <<trim(code)>>
    /\ splits' = splits + 1
    /\ output' = NoValue
    /\ idx' = 1
    /\ pc' = "loop"
    /\ UNCHANGED <<redirVars, bufVars, nWrites, regVars, nExec, execution_counter, code,
                   matches, compilation_result, kernel_res, reply,
                   tested, applied, invoked, outcomes, cancelled, results, flushes, events>>

\* lines 96-97
Split ==
    /\ pc = "split"
    /\ blocks' = split_from_includes(code)
    /\ splits' = splits + 1
    /\ output' = NoValue
    /\ idx' = 1
    /\ pc' = IF blocks' = <<>> THEN "finalize" ELSE "loop"
    /\ UNCHANGED <<redirVars, bufVars, nWrites, regVars, nExec, execution_counter, code,
                   matches, compilation_result, kernel_res, reply,
                   tested, applied, invoked, outcomes, cancelled, results, flushes, events>>

\* what one m_processor.process call can do: return an error level, having
\* written the compilation result and the value, or throw, having written
\* either of them or not
EngineReturns ==
    [kind : {"return"}, errorlevel : ErrorLevels, compRes : CompilationResult,
     value : Values \cup {NoValue}, diagnose : {FALSE}]

EngineThrows ==
    {r \in [kind : {"cling::InterpreterException", "std::exception", "other"},
            errorlevel : {0}, compRes : CompilationResult \cup {"untouched"},
            value : {NoValue, "untouched"}, diagnose : BOOLEAN] :
        r.diagnose => r.kind = "cling::InterpreterException"}

EngineResponses == EngineReturns \cup EngineThrows

\* the text the catch clauses of lines 107-123 insert into std::cerr
catch_diagnostic(r) ==
    IF r.kind = "cling::InterpreterException"
    THEN IF r.diagnose THEN <<>> ELSE <<"Caught an interpreter exception!", "what", "eol">>
    ELSE IF r.kind = "std::exception" THEN <<"Caught a std::exception!", "what", "eol">>
    ELSE IF r.kind = "other" THEN <<"Exception occurred. Recovering...">>
    ELSE <<>>

\* seeded fault: a non-zero error level is answered without cancelContinuation
block_verdict_no_cancel(errorlevel, cr) ==
    IF errorlevel # 0 THEN "error"
    ELSE IF cr # "kSuccess" THEN "error"
    ELSE "next"

\* lines 125-135: what the loop does after a process call
block_verdict(errorlevel, cr) ==
    IF errorlevel # 0 THEN "cancel_and_error"
    ELSE IF cr # "kSuccess" THEN "error"
    ELSE "next"

\* seeded fault: the loop does not advance
next_block_stuck(i) == i

\* line 99, for (const auto& block : blocks): the step to the next fragment
next_block(i) == i + 1

\* lines 99-136, one turn of the loop over blocks
ProcessBlock ==
    /\ pc = "loop"
    /\ idx <= Len(blocks)
    /\ \E r \in EngineResponses, indeterminate \in CompilationResult :
          LET errorlevel == IF r.kind = "return" THEN r.errorlevel ELSE 0
              cr      == IF r.compRes = "untouched" THEN compilation_result ELSE r.compRes
              \* reading a compilation_result nobody wrote yields any value
              crRead  == IF cr = "uninit" THEN indeterminate ELSE cr
              verdict == block_verdict(errorlevel, crRead)
          IN  /\ invoked' = Append(invoked, idx)
              /\ events' = Append(events, "process")
              /\ outcomes' = Append(outcomes, r)
              /\ compilation_result' = cr
              /\ output' = IF r.value = "untouched" THEN output ELSE r.value
              /\ SetStreams(cerr_insert(Streams, cerr_rdbuf, catch_diagnostic(r)))
              /\ cancelled' = IF verdict = "cancel_and_error" THEN cancelled + 1 ELSE cancelled
              /\ IF verdict = "next"
                 THEN /\ idx' = next_block(idx)
                      /\ pc' = IF idx' > Len(blocks) THEN "finalize" ELSE "loop"
                      /\ UNCHANGED <<kernel_res, reply>>
                 ELSE /\ kernel_res' = get_error_reply("ename", "evalue", <<>>)
                      /\ reply' = <<kernel_res'>>
                      /\ pc' = "idle"
                      /\ UNCHANGED idx
    /\ UNCHANGED <<redirVars, nWrites, regVars, nExec, execution_counter, code, matches,
                   blocks, tested, applied, splits, results, flushes>>

\* seeded fault: the terminator test is inverted
should_publish_inverted(hasValue, lastChar) == hasValue /\ lastChar = ";"

\* seeded fault: the terminator test is missing
should_publish_any(hasValue, lastChar) == hasValue

\* line 138: is the value published?
should_publish(hasValue, lastChar) == hasValue /\ lastChar # ";"

\* seeded fault: the value is published twice
result_messages_twice(counter, value) ==
    LET m == [execution_count |-> counter, data |-> [text_plain |-> print(value)], metadata |-> "{}"]
    IN  <<m, m>>

\* lines 140-148: the messages handed to publish_execution_result
result_messages(counter, value) ==
    <<[execution_count |-> counter, data |-> [text_plain |-> print(value)], metadata |-> "{}"]>>

\* seeded fault: the flush of line 151 is missing
flush_cout_missing(st) == st

\* line 151: std::cout << std::flush
flush_cout(st) == sync(st, cout_rdbuf)

\* lines 138-153
Finalize ==
    /\ pc = "finalize"
    /\ LET hasValue == output # NoValue
           noChar   == blocks = <<>> \/ trim(Last(blocks)) = <<>>
       IN  \E anyChar \in Alphabet :
              \* back() of an empty string or vector yields any character
              LET lastChar == IF noChar THEN anyChar ELSE Last(trim(Last(blocks)))
                  publish  == should_publish(hasValue, IF hasValue THEN lastChar ELSE "x")
              IN  /\ results' = IF publish
                                THEN results \o result_messages(execution_counter, output)
                                ELSE results
                  /\ events' = events
                                \o (IF ~hasValue THEN <<>>
                                    ELSE IF noChar THEN <<"back_of_empty">> ELSE <<"back">>)
                                \o (IF publish THEN <<"result">> ELSE <<>>)
                                \o <<"flush">>
    /\ SetStreams(flush_cout(Streams))
    /\ flushes' = flushes + 1
    /\ kernel_res' = set_status_ok(kernel_res)
    /\ reply' = <<kernel_res'>>
    /\ pc' = "idle"
    /\ UNCHANGED <<redirVars, nWrites, regVars, nExec, execution_counter, code, matches,
                   compilation_result, output, blocks, idx,
                   tested, applied, splits, invoked, outcomes, cancelled>>

(* ---------------------------- specification ---------------------------- *)
Next ==
    \/ Construct
    \/ Destroy
    \/ ExecuteRequest
    \/ ExecuteBegin
    \/ Dispatch
    \/ Split
    \/ ProcessBlock
    \/ Finalize

\* the session without output from user code
Spec == Init /\ [][Next]_vars

\* the session with user code writing to the standard streams
NextIO ==
    \/ Next
    \/ WriteStream

SpecIO == Init /\ [][NextIO]_vars

\* a fragment of the running submission writes to std::cout and does not
\* flush it (std::cout << x;)
FragmentWrite ==
    /\ pc = "loop"
    /\ Write({"stdout"}, {FALSE})

\* the first execute request of the session
FirstRequest ==
    /\ nExec = 0
    /\ ExecuteRequest

\* one submission whose fragments write to std::cout, up to its reply
NextOut ==
    \/ Construct
    \/ FirstRequest
    \/ ExecuteBegin
    \/ Dispatch
    \/ Split
    \/ ProcessBlock
    \/ Finalize
    \/ FragmentWrite

SpecOut == Init /\ [][NextOut]_vars


(* ---------------------------- properties ------------------------------- *)
Registered == {preamble[i] : i \in DOMAIN preamble}

\* a submission has entered execute_request_impl (it runs or has returned)
InCall == nExec > 0 /\ pc # "entry"

Returned == InCall /\ pc = "idle" /\ reply # <<>>

PreambleMatched == InCall /\ matches \cap Registered # {}

NonPreamble == InCall /\ matches \cap Registered = {}

\* the i-th process call faulted or reported a failure
Faulted(i) ==
    \/ outcomes[i].kind # "return"
    \/ outcomes[i].errorlevel # 0
    \/ outcomes[i].compRes # "kSuccess"

\* every fragment was run and none faulted or failed
AllSucceeded ==
    /\ blocks # <<>>
    /\ Len(outcomes) = Len(blocks)
    /\ \A i \in 1..Len(outcomes) : ~Faulted(i)

LastTrimmed == trim(Last(blocks))

\* C1: a submission matched by a registered preamble never reaches the
\* splitter or the engine, publishes no execution result, and execute
\* returns exactly the reply the one applied preamble produced.
C1_PreambleShortCircuit ==
    PreambleMatched =>
        /\ splits = 0
        /\ invoked = <<>>
        /\ results = <<>>
        /\ reply # <<>> =>
              /\ Len(applied) = 1
              /\ applied[1].name \in matches
              /\ reply = <<applied[1].result>>

C1_Witness ==
    /\ Returned
    /\ Cardinality(matches) >= 2
    /\ Len(applied) = 1
    /\ reply = <<applied[1].result>>
    /\ reply[1].status = "error"

\* C2: once a fragment faults or reports a failure, no later fragment is
\* run and the reply execute returns is an error reply.
C2_FaultAborts ==
    NonPreamble =>
        \A i \in 1..Len(outcomes) :
            Faulted(i) =>
                /\ i = Len(outcomes)
                /\ pc = "idle"
                /\ reply # <<>>
                /\ reply[1].status = "error"

\* C3: when every fragment succeeds and the last one produced a value and
\* does not end in ";", exactly one execution result is published, with the
\* counter of the call and the text of that value under text/plain.
C3_ValuePublishedOnce ==
    (/\ NonPreamble
     /\ Returned
     /\ AllSucceeded
     /\ Last(outcomes).value # NoValue
     /\ LastTrimmed # <<>>
     /\ Last(LastTrimmed) # ";")
    => /\ Len(results) = 1
       /\ results[1].execution_count = execution_counter
       /\ results[1].data = [text_plain |-> print(Last(outcomes).value)]

C3_Witness ==
    /\ NonPreamble
    /\ Returned
    /\ AllSucceeded
    /\ Len(blocks) = 2
    /\ outcomes[1].value \in Values
    /\ Last(outcomes).value \in Values \ {outcomes[1].value}
    /\ LastTrimmed # <<>>
    /\ Last(LastTrimmed) # ";"
    /\ Len(results) = 1
    /\ execution_counter = 2

\* C4: when every fragment succeeds and the last one ends in ";", no
\* execution result is published, value or not.
C4_TerminatorSuppresses ==
    (/\ NonPreamble
     /\ Returned
     /\ AllSucceeded
     /\ LastTrimmed # <<>>
     /\ Last(LastTrimmed) = ";")
    => results = <<>>

C4_Witness ==
    /\ NonPreamble
    /\ Returned
    /\ AllSucceeded
    /\ LastTrimmed # <<>>
    /\ Last(LastTrimmed) = ";"
    /\ Last(outcomes).value \in Values
    /\ results = <<>>

\* the process call that ended the loop returned normally
LastReturned == outcomes # <<>> /\ Last(outcomes).kind = "return"

\* C5 as stated: a returned non-zero error level and a returned outcome
\* other than kSuccess both cancel the continuation and give an error reply.
C5_BothSignalsCancel ==
    (NonPreamble /\ LastReturned /\ Faulted(Len(outcomes)))
    => /\ cancelled >= 1
       /\ Returned
       /\ reply[1].status = "error"

\* C5 as amended: a returned non-zero error level cancels the continuation
\* and gives an error reply; a returned error level of zero with an outcome
\* other than kSuccess gives an error reply without cancelling.
C5_ErrorLevelCancels ==
    (NonPreamble /\ LastReturned /\ Faulted(Len(outcomes)))
    => /\ Returned
       /\ reply[1].status = "error"
       /\ cancelled = IF Last(outcomes).errorlevel # 0 THEN 1 ELSE 0

C5_Witness ==
    /\ NonPreamble
    /\ Returned
    /\ Len(outcomes) = 2
    /\ LastReturned
    /\ Last(outcomes).errorlevel = 1
    /\ cancelled = 1
    /\ reply[1].status = "error"

\* C6: a submission no preamble matched publishes at most one execution
\* result, and none at all when execute returns an error reply.
C6_AtMostOneResult ==
    NonPreamble =>
        /\ Len(results) <= 1
        /\ (Returned /\ reply[1].status = "error") => results = <<>>

C6_Witness ==
    /\ NonPreamble
    /\ Returned
    /\ reply[1].status = "error"
    /\ Len(outcomes) = 2
    /\ outcomes[1].value \in Values
    /\ results = <<>>

\* C7: the reply to a submission no preamble matched is an ok reply or an
\* error reply, and an error reply is always the placeholder one.
C7_BinaryReply ==
    (NonPreamble /\ Returned) =>
        /\ reply[1].status \in {"ok", "error"}
        /\ reply[1].status = "ok" => reply[1] = [status |-> "ok"]
        /\ reply[1].status = "error" =>
              reply[1] = [status |-> "error", ename |-> "ename", evalue |-> "evalue",
                          traceback |-> <<>>]

C7_Witness ==
    /\ NonPreamble
    /\ Returned
    /\ reply[1].status = "error"
    /\ Last(outcomes).kind = "std::exception"
    /\ reply[1].ename = "ename"

\* C8: is_match is evaluated in registration order (introspection, magics,
\* shell), the first handler that matches is the only one applied, and no
\* is_match is evaluated after it.
C8_FirstMatchWins ==
    /\ phase # "unborn" => preamble = <<"introspection", "magics", "shell">>
    /\ Len(tested) <= Len(preamble)
    /\ \A i \in 1..Len(tested) : tested[i] = preamble[i]
    /\ Len(applied) <= 1
    /\ \A i \in 1..Len(tested) : tested[i] \in matches => i = Len(tested)
    /\ applied # <<>> => /\ tested # <<>>
                         /\ applied[1].name = Last(tested)
                         /\ applied[1].name \in matches
    /\ (InCall /\ pc # "dispatch" /\ applied = <<>>) => tested = preamble

C8_Witness ==
    /\ Returned
    /\ matches = {"magics", "shell"}
    /\ tested = <<"introspection", "magics">>
    /\ Len(applied) = 1
    /\ applied[1].name = "magics"

\* C9: while the interpreter lives the two streams point at the two capture
\* buffers, and after teardown they point where they pointed just before
\* construction.
C9_RedirectRoundTrip ==
    /\ phase = "live" => cout_rdbuf = "m_cout_buffer" /\ cerr_rdbuf = "m_cerr_buffer"
    /\ phase = "dead" => cout_rdbuf = pre_cout /\ cerr_rdbuf = pre_cerr

C9_Witness ==
    /\ phase = "dead"
    /\ nExec = 0
    /\ cout_rdbuf = "file_out"
    /\ cerr_rdbuf = CerrTarget

\* C10: text written to a standard stream while the redirection is installed
\* never reaches another target, is published under the name of the stream
\* it was written to, and none of it is still held back after teardown.
C10_EveryWritePublished ==
    /\ \A i \in DOMAIN sink : sink[i].chunk.at # "live"
    /\ \A i \in DOMAIN stream_log :
          \A j \in DOMAIN stream_log[i].text : stream_log[i].text[j].to = stream_log[i].name
    /\ phase = "dead" => m_cout_buffer = <<>> /\ m_cerr_buffer = <<>>

\* C11: no failure raised while a submission is handled leaves
\* execute_request_impl; every call ends with a reply.
C11_FailuresContained ==
    /\ pc # "threw"
    /\ (InCall /\ pc = "idle") => reply # <<>>

\* positions of the "#" that open a directive: no other "#" earlier on the line
DirectiveOpenings(s) ==
    {i \in 1..Len(s) :
        /\ s[i] = "#"
        /\ \A j \in 1..(i - 1) : s[j] = "#" => \E k \in (j + 1)..(i - 1) : s[k] = "nl"}

\* the submission of the current call holds exactly one directive and has
\* been split
OneDirective == InCall /\ splits = 1 /\ Cardinality(DirectiveOpenings(code)) = 1

TheDirective == CHOOSE i \in DirectiveOpenings(code) : TRUE

\* first position after the directive's line
DirectiveEnd ==
    LET ends == {k \in (TheDirective + 1)..Len(code) : code[k] = "nl"}
    IN  IF ends = {} THEN Len(code) + 1 ELSE CHOOSE k \in ends : \A m \in ends : k <= m

TextBefore == trim(SubSeq(code, 1, TheDirective - 1))

DirectiveText == trim(SubSeq(code, TheDirective, DirectiveEnd - 1))

TextAfter == trim(SubSeq(code, DirectiveEnd, Len(code)))

IfText(t) == IF t = <<>> THEN <<>> ELSE <<t>>

OkReturn == Returned /\ NonPreamble /\ reply[1].status = "ok"

\* the stdout messages published during the current submission
StdoutPublished == {i \in DOMAIN stream_log : stream_log[i].name = "stdout"}

\* C13: when a non-preamble submission returns an ok reply, std::cout has
\* been flushed exactly once, as the last step before the reply (after the
\* last fragment and after the execution-result message), and nothing the
\* fragments wrote to std::cout is still buffered: all of it was published.
C13_FlushedBeforeOkReply ==
    OkReturn =>
        /\ flushes = 1
        /\ \A i \in DOMAIN events : events[i] = "flush" <=> i = Len(events)
        /\ m_cout_buffer = <<>>
        /\ nWrites > 0 =>
              \E i \in StdoutPublished : Len(stream_log[i].text) = nWrites

C13_Witness ==
    /\ OkReturn
    /\ nWrites > 0
    /\ StdoutPublished # {}
    /\ m_cout_buffer = <<>>
    /\ Len(events) >= 4
    /\ SubSeq(events, Len(events) - 3, Len(events)) = <<"process", "back", "result", "flush">>

\* C14: the engine is given the fragments strictly in the order the
\* splitter returned them, each at most once, the next one only after the
\* previous call has returned or thrown; there are never more calls than
\* fragments.
C14_InOrderAtMostOnce ==
    /\ \A i \in DOMAIN invoked : invoked[i] = i
    /\ Len(invoked) <= Len(blocks)
    /\ Len(outcomes) = Len(invoked)
    /\ pc = "loop" => idx = Len(invoked) + 1

C14_Witness ==
    /\ Returned
    /\ Len(blocks) = 2
    /\ invoked = <<1, 2>>
    /\ Len(outcomes) = 2

\* C15: a published execution result carries the value that the engine
\* call for the final fragment of the submission returned; nothing is
\* published when that call threw or produced no value.
C15_FinalFragmentValue ==
    results # <<>> =>
        /\ Len(outcomes) = Len(blocks)
        /\ Last(outcomes).kind = "return"
        /\ Last(outcomes).value # NoValue
        /\ \A i \in DOMAIN results :
              results[i].data = [text_plain |-> print(Last(outcomes).value)]

\* the text user code wrote that the stream messages of the current
\* submission carry
PublishedUserChunks ==
    {c \in UNION {{stream_log[i].text[j] : j \in DOMAIN stream_log[i].text} :
                     i \in DOMAIN stream_log} : c.by = "user"}

\* C16: nothing of an earlier submission shows in a later one: the stream
\* messages published for the current submission carry only text written
\* while it runs (or between submissions), never text that an earlier
\* submission left in a buffer, and every call starts from an unset
\* compilation result and no value.
C16_NoCarryOver ==
    /\ \A c \in PublishedUserChunks : c.call \in {0, nExec}
    /\ pc = "dispatch" => compilation_result = "uninit" /\ output = NoValue

\* C17: the last character of the trimmed final fragment is read only
\* when there is a final fragment and its trimmed text is not empty, and
\* only after every fragment succeeded and the engine reported a value.
C17_GuardedTerminatorCheck ==
    /\ \A i \in DOMAIN events : events[i] # "back_of_empty"
    /\ (\E i \in DOMAIN events : events[i] = "back") =>
          AllSucceeded /\ output # NoValue

\* C18: construction installs the redirection, registers introspection,
\* magics and shell, and then extends the magics handler with file and
\* timeit: no lookup of "magics" finds nothing, a submission is dispatched
\* only while the redirection is installed, and every install is undone by
\* exactly one restore, at teardown.
C18_StartupOrder ==
    /\ phase # "failed"
    /\ \A i \in DOMAIN lookups : lookups[i] = "found"
    /\ phase \in {"live", "dead"} =>
          /\ preamble = <<"introspection", "magics", "shell">>
          /\ magic = {"file", "timeit"}
          /\ Len(lookups) = 2
    /\ nExec > 0 => nInstall = 1
    /\ pc \notin {"idle", "threw"} =>
          phase = "live" /\ cout_rdbuf = "m_cout_buffer" /\ cerr_rdbuf = "m_cerr_buffer"
    /\ phase = "unborn" => nInstall = 0 /\ nRestore = 0
    /\ phase = "live" => nInstall = 1 /\ nRestore = 0
    /\ phase = "dead" => nInstall = 1 /\ nRestore = 1

C18_Witness ==
    /\ phase = "dead"
    /\ nExec > 0
    /\ tested # <<>>
    /\ lookups = <<"found", "found">>
    /\ magic = {"file", "timeit"}
    /\ nInstall = 1
    /\ nRestore = 1

====
